---- MODULE Spec2Model ----
(***************************************************************************)
(* Model of the normalisation layer of perf-tests/scripts/generate-charts.py *)
(* (results_to_dataframe, extract_timeseries_data) as main drives it.       *)
(*                                                                         *)
(* A JSON object is a function whose domain is the set of keys present, a   *)
(* JSON array is a sequence.  Fractional JSON numbers of the summary        *)
(* metrics are exact rationals [n, d] in lowest terms; timestamps, sample   *)
(* values and target rates are integers.                                    *)
(***************************************************************************)
EXTENDS Integers, Sequences, FiniteSets, TLC

VARIABLES results, df, ts_df, pc

\* results_dir: the directory named on the command line; metadata, report_name:
\* the report label and what it is resolved from; warnings: the files a
\* warning was printed for; outputs: the files written
VARIABLES results_dir, metadata, report_name, warnings, outputs

vars == <<results, df, ts_df, pc, results_dir, metadata, report_name, warnings, outputs>>

\* what the two table builders leave alone
surroundings == <<results_dir, metadata, report_name, warnings, outputs>>

\* ---------------------------------------------------------------- bounds
MaxRecords == 2
MaxSamples == 2

\* ------------------------------------------------------- program constants
BytesPerMB == 1048576
MsPerSecond == 1000
SecondsPerMinute == 60

\* ------------------------------------------------------------ dict access
EmptyDict == [k \in {} |-> 0]

\* dict.get(key, default)
Get(d, k, default) == IF k \in DOMAIN d THEN d[k] ELSE default

\* d.get(k1, {}).get(k2, {}).get(k3, default)
Get3(d, k1, k2, k3, default) ==
    Get(Get(Get(d, k1, EmptyDict), k2, EmptyDict), k3, default)

\* -------------------------------------------------------------- rationals
RECURSIVE Gcd(_, _)
Gcd(a, b) == IF b = 0 THEN a ELSE Gcd(b, a % b)

Abs(x) == IF x < 0 THEN -x ELSE x

Rat(num, den) ==
    LET g == Gcd(Abs(num), den)
    IN  IF num = 0 THEN [n |-> 0, d |-> 1] ELSE [n |-> num \div g, d |-> den \div g]

Zero == Rat(0, 1)

\* x * k and x / k for a positive integer k
RatTimes(x, k) == Rat(x.n * k, x.d)
RatOver(x, k) == Rat(x.n, x.d * k)

\* Python truthiness of a number
Truthy(x) == x.n # 0

\* a set of integers in ascending order
RECURSIVE Sorted(_)
Sorted(S) ==
    IF S = {} THEN <<>>
    ELSE LET lo == CHOOSE x \in S : \A y \in S : x <= y
         IN  <<lo>> \o Sorted(S \ {lo})

\* ------------------------------------------------------ results_to_dataframe
\* bytes_per_sec / (1000 * 1000): decimal megabytes
ToMegabytesDecimal(bytes_per_sec) ==
    IF Truthy(bytes_per_sec) THEN RatOver(bytes_per_sec, 1000000) ELSE Zero

\* bytes_per_sec / (1024 * 1024) if bytes_per_sec else 0
ToMegabytes(bytes_per_sec) ==
    IF Truthy(bytes_per_sec) THEN RatOver(bytes_per_sec, BytesPerMB) ELSE Zero

\* seconds * 1000
ToMillis(seconds) == RatTimes(seconds, MsPerSecond)

\* The row built for one record.  src is an auxiliary field: the position of
\* the record in the input list (the frame's index label before reset_index).
SummaryRow(r, i) ==
    LET bytes_per_sec == Get3(r, "metrics", "throughput", "bytes_per_second", Zero)
        mb_per_sec_actual == ToMegabytes(bytes_per_sec)
    IN  [ src |-> i,
          load_name |-> Get(r, "load_name", "unknown"),
          mb_per_sec |-> Get(Get(r, "config", EmptyDict), "mb_per_sec", 0),
          mb_per_sec_actual |-> mb_per_sec_actual,
          bytes_per_sec |-> bytes_per_sec,
          p50_ms |-> ToMillis(Get3(r, "metrics", "query_latencies", "p50_seconds", Zero)),
          p90_ms |-> ToMillis(Get3(r, "metrics", "query_latencies", "p90_seconds", Zero)),
          p99_ms |-> ToMillis(Get3(r, "metrics", "query_latencies", "p99_seconds", Zero)),
          cpu_cores |-> Get3(r, "metrics", "resources", "avg_cpu_cores", Zero),
          memory_gb |-> Get3(r, "metrics", "resources", "max_memory_gb", Zero),
          spans_per_sec |-> Get3(r, "metrics", "throughput", "spans_per_second", Zero),
          error_rate |-> Get3(r, "metrics", "errors", "error_rate_percent", Zero),
          dropped_spans |-> Get3(r, "metrics", "errors", "dropped_spans_per_second", Zero) ]

\* rows collected under their load name: a later record replaces an earlier
\* one of the same name
SummaryRowsByName(rs) ==
    LET name(i) == Get(rs[i], "load_name", "unknown")
        kept == Sorted({i \in 1..Len(rs) : \A j \in (i + 1)..Len(rs) : name(j) # name(i)})
    IN  [k \in 1..Len(kept) |-> SummaryRow(rs[kept[k]], kept[k])]

\* rows only for the records that carry a metrics object
SummaryRowsValidated(rs) ==
    LET kept == Sorted({i \in 1..Len(rs) : "metrics" \in DOMAIN rs[i]})
    IN  [k \in 1..Len(kept) |-> SummaryRow(rs[kept[k]], kept[k])]

\* rows = [] ; for r in results: rows.append(row)
SummaryRows(rs) == [i \in 1..Len(rs) |-> SummaryRow(rs[i], i)]

Perms(n) == {p \in [1..n -> 1..n] : \A i, j \in 1..n : p[i] = p[j] => i = j}

\* the rows arranged by the measured rate instead of the target rate
SortByActualRate(rows) ==
    { [i \in 1..Len(rows) |-> rows[p[i]]] : p \in
        {q \in Perms(Len(rows)) :
            \A i, j \in 1..Len(rows) :
                i < j => rows[q[i]].mb_per_sec_actual.n * rows[q[j]].mb_per_sec_actual.d
                         <= rows[q[j]].mb_per_sec_actual.n * rows[q[i]].mb_per_sec_actual.d} }

\* df.sort_values('mb_per_sec').reset_index(drop=True).  A single sort key goes
\* through argsort with the default kind 'quicksort', which promises no order
\* among equal keys: every ascending arrangement is a possible outcome.
SortByRate(rows) ==
    { [i \in 1..Len(rows) |-> rows[p[i]]] : p \in
        {q \in Perms(Len(rows)) :
            \A i, j \in 1..Len(rows) :
                i < j => rows[q[i]].mb_per_sec <= rows[q[j]].mb_per_sec} }

\* the list after a loop that takes 'timeseries' out of every record
WithoutTimeseries(rs) ==
    [k \in DOMAIN rs |-> [key \in DOMAIN rs[k] \ {"timeseries"} |-> rs[k][key]]]

\* the list after a builder's loop over it: the records are looked into with
\* r.get(...) and item[...], nothing is assigned to, added or taken out
AfterReading(rs) == rs

\* results_to_dataframe called at one position of the caller
BuildSummary(from, to) ==
    /\ pc = from
    /\ df' \in SortByRate(SummaryRows(results))
    /\ results' = AfterReading(results)
    /\ pc' = to
    /\ UNCHANGED <<ts_df, surroundings>>

ResultsToDataframe == BuildSummary("loaded", "summarised")

\* --------------------------------------------------- extract_timeseries_data
\* The nine tracked streams: key in the record's timeseries mapping, column of
\* the row, factor applied to the looked-up value.
TrackedStreams ==
    << [key |-> "cpu_cores", col |-> "cpu_cores", scale |-> 1],
       [key |-> "memory_gb", col |-> "memory_gb", scale |-> 1],
       [key |-> "spans_per_second", col |-> "spans_per_sec", scale |-> 1],
       [key |-> "bytes_per_second", col |-> "bytes_per_sec", scale |-> 1],
       [key |-> "p50_latency_seconds", col |-> "p50_ms", scale |-> MsPerSecond],
       [key |-> "p90_latency_seconds", col |-> "p90_ms", scale |-> MsPerSecond],
       [key |-> "p99_latency_seconds", col |-> "p99_ms", scale |-> MsPerSecond],
       [key |-> "query_failures_per_second", col |-> "query_failures", scale |-> 1],
       [key |-> "dropped_spans_per_second", col |-> "dropped_spans", scale |-> 1] >>

StreamKeys == {TrackedStreams[k].key : k \in DOMAIN TrackedStreams}

\* a record is passed over only when it has no timeseries mapping at all
SkippedWithoutTimeseries(r) == DOMAIN Get(r, "timeseries", EmptyDict) = {}

\* if not timeseries or not timeseries.get('cpu_cores'): continue
Skipped(r) ==
    LET timeseries == Get(r, "timeseries", EmptyDict)
    IN  \/ DOMAIN timeseries = {}
        \/ Len(Get(timeseries, "cpu_cores", <<>>)) = 0

\* item['timestamp'], item['value'] raise KeyError on a sample without the key
SampleRaises(item) == ~({"timestamp", "value"} \subseteq DOMAIN item)

StreamRaises(stream) == \E k \in DOMAIN stream : SampleRaises(stream[k])

\* the mapping keeps the first sample seen for a timestamp
ToDictFirst(stream) ==
    [t \in {stream[k].timestamp : k \in DOMAIN stream} |->
        LET first == CHOOSE k \in DOMAIN stream :
                         /\ stream[k].timestamp = t
                         /\ \A m \in DOMAIN stream : stream[m].timestamp = t => k <= m
        IN  stream[first].value]

\* {item['timestamp']: item['value'] for item in stream}: a later sample
\* overwrites an earlier one with the same timestamp
ToDict(stream) ==
    [t \in {stream[k].timestamp : k \in DOMAIN stream} |->
        LET last == CHOOSE k \in DOMAIN stream :
                        /\ stream[k].timestamp = t
                        /\ \A m \in DOMAIN stream : stream[m].timestamp = t => m <= k
        IN  stream[last].value]

\* the timestamps of every tracked stream: an outer join of the streams
AllTimestamps(timeseries) ==
    Sorted(UNION {DOMAIN ToDict(Get(timeseries, key, <<>>)) : key \in StreamKeys})

\* the timestamps rows are emitted for: sorted(cpu_data.keys())
ReferenceTimestamps(timeseries) ==
    Sorted(DOMAIN ToDict(Get(timeseries, "cpu_cores", <<>>)))

\* the row appended for timestamp ts of record r (position i in the input)
TimeseriesRow(r, i, ts) ==
    LET timeseries == Get(r, "timeseries", EmptyDict)
        data(key) == ToDict(Get(timeseries, key, <<>>))
    IN  [ src |-> i,
          load_name |-> Get(r, "load_name", "unknown"),
          timestamp |-> ts,
          cpu_cores |-> Get(data("cpu_cores"), ts, 0),
          memory_gb |-> Get(data("memory_gb"), ts, 0),
          spans_per_sec |-> Get(data("spans_per_second"), ts, 0),
          bytes_per_sec |-> Get(data("bytes_per_second"), ts, 0),
          p50_ms |-> Get(data("p50_latency_seconds"), ts, 0) * MsPerSecond,
          p90_ms |-> Get(data("p90_latency_seconds"), ts, 0) * MsPerSecond,
          p99_ms |-> Get(data("p99_latency_seconds"), ts, 0) * MsPerSecond,
          query_failures |-> Get(data("query_failures_per_second"), ts, 0),
          dropped_spans |-> Get(data("dropped_spans_per_second"), ts, 0) ]

\* the rows one iteration of the loop over results appends
RecordRows(r, i) ==
    IF Skipped(r) THEN <<>>
    ELSE LET ref == ReferenceTimestamps(r.timeseries)
         IN  [k \in 1..Len(ref) |-> TimeseriesRow(r, i, ref[k])]

\* an iteration raises when a record that is not skipped has, in any of the
\* nine streams, a sample without 'timestamp' or 'value'
RecordRaises(r) ==
    /\ ~Skipped(r)
    /\ \E key \in StreamKeys : StreamRaises(Get(r.timeseries, key, <<>>))

RECURSIVE CollectRows(_, _)
CollectRows(rs, i) ==
    IF i > Len(rs) THEN <<>> ELSE RecordRows(rs[i], i) \o CollectRows(rs, i + 1)

\* Python's order on the load names in use
NameRank == ("high" :> 1) @@ ("low" :> 2) @@ ("unknown" :> 3)

\* row a sorts strictly before row b under the key (load_name, timestamp)
RowBefore(a, b) ==
    \/ NameRank[a.load_name] < NameRank[b.load_name]
    \/ /\ a.load_name = b.load_name
       /\ a.timestamp < b.timestamp

\* df.sort_values(['load_name', 'timestamp']).reset_index(drop=True): several
\* keys go through the lexicographic indexer, which keeps equal keys in order
\* (InsertRow places a row behind every row that does not sort after it)
RECURSIVE InsertRow(_, _)
InsertRow(sorted, row) ==
    IF sorted = <<>> THEN <<row>>
    ELSE IF RowBefore(row, sorted[Len(sorted)])
         THEN Append(InsertRow(SubSeq(sorted, 1, Len(sorted) - 1), row), sorted[Len(sorted)])
         ELSE Append(sorted, row)

\* the sorted frame is not kept: the rows stay as collected
RowsAsCollected(rows) == rows

RECURSIVE SortByLoadAndTime(_)
SortByLoadAndTime(rows) ==
    IF rows = <<>> THEN <<>>
    ELSE InsertRow(SortByLoadAndTime(SubSeq(rows, 1, Len(rows) - 1)), rows[Len(rows)])

\* the quotient rounded to the nearest integer
RoundDiv(x, k) == (2 * x + k) \div (2 * k)

\* (x / 60).astype(int): the quotient cut towards zero
TruncDiv(x, k) == IF x >= 0 THEN x \div k ELSE -((-x) \div k)

\* the earliest timestamp of the whole frame, whatever the load
FrameMinTimestamp(rows, load) ==
    LET T == {rows[k].timestamp : k \in DOMAIN rows}
    IN  CHOOSE t \in T : \A u \in T : t <= u

\* min_ts = df.loc[df['load_name'] == load, 'timestamp'].min()
MinTimestamp(rows, load) ==
    LET T == {rows[k].timestamp : k \in {m \in DOMAIN rows : rows[m].load_name = load}}
    IN  CHOOSE t \in T : \A u \in T : t <= u

\* the relative minute column, per load
AddMinute(rows) ==
    [k \in DOMAIN rows |->
        rows[k] @@ ("minute" :>
            TruncDiv(rows[k].timestamp - MinTimestamp(rows, rows[k].load_name),
                     SecondsPerMinute) + 1)]

\* extract_timeseries_data called at one position of the caller
BuildTimeseries(from, to) ==
    /\ pc = from
    /\ IF \E i \in DOMAIN results : RecordRaises(results[i])
       THEN /\ pc' = "raised"
            /\ UNCHANGED ts_df
       ELSE /\ ts_df' = AddMinute(SortByLoadAndTime(CollectRows(results, 1)))
            /\ pc' = to
    /\ results' = AfterReading(results)
    /\ UNCHANGED <<df, surroundings>>

ExtractTimeseriesData == BuildTimeseries("summarised", "extracted")

\* the two builders called the other way round over one loaded list
ExtractTimeseriesDataFirst == BuildTimeseries("loaded", "extracted_first")

ResultsToDataframeSecond == BuildSummary("extracted_first", "built_reversed")

\* ------------------------------------------------------------ directories
\* A file name is [head, body, ext]: "report-" "1" ".json" is report-1.json.
\* A directory maps the names of its files to their contents; a content is
\*   [kind |-> "json", data |-> the parsed value]
\*   [kind |-> "malformed"]    text json.load rejects with JSONDecodeError
\*   [kind |-> "unreadable"]   open() raises OSError
\*   [kind |-> "undecodable"]  reading raises UnicodeDecodeError
FileName(head, body, ext) == [head |-> head, body |-> body, ext |-> ext]

\* the file names in use, in the ascending order of Python's sorted()
NameOrder ==
    << FileName("", "a", ".json"), FileName("", "b", ".json"), FileName("", "c", ".json"),
       FileName("", "d", ".json"), FileName("", "notes", ".txt"),
       FileName("report-", "1", ".json"), FileName("report-", "2", ".json"),
       FileName("report", "s", ".json") >>

\* glob('*.json') and glob('report-*.json')
MatchesJson(name) == name.ext = ".json"
MatchesReport(name) == name.head = "report-" /\ name.ext = ".json"

\* sorted(names)
SortedNames(names) == SelectSeq(NameOrder, LAMBDA n : n \in names)

Reverse(seq) == [k \in 1..Len(seq) |-> seq[Len(seq) + 1 - k]]

\* -------------------------------------------------------- load_test_results
\* sorted(raw_dir.glob('*.json'))
RawJsonFiles(files) == SortedNames({n \in DOMAIN files : MatchesJson(n)})

\* open() or the read raises something other than JSONDecodeError
ReadRaises(content) == content.kind \in {"unreadable", "undecodable"}

\* the loop gives up at the first file that fails to parse
RECURSIVE ParsedUntilFailure(_, _)
ParsedUntilFailure(files, names) ==
    IF names = <<>> \/ files[Head(names)].kind # "json" THEN <<>>
    ELSE <<files[Head(names)].data>> \o ParsedUntilFailure(files, Tail(names))

\* results after the loop over names: the data of each file that parses, a
\* file raising JSONDecodeError passed over (continue)
RECURSIVE ParsedRecords(_, _)
ParsedRecords(files, names) ==
    IF names = <<>> THEN <<>>
    ELSE (IF files[Head(names)].kind = "json" THEN <<files[Head(names)].data>> ELSE <<>>)
         \o ParsedRecords(files, Tail(names))

\* the files of names that the loop warns about
Malformed(files, names) ==
    {names[k] : k \in {j \in DOMAIN names : files[names[j]].kind = "malformed"}}

\* the names the loop gets to: all of them, or those up to the first one whose
\* reading raises
RECURSIVE Reached(_, _)
Reached(files, names) ==
    IF names = <<>> THEN <<>>
    ELSE IF ReadRaises(files[Head(names)]) THEN <<Head(names)>>
         ELSE <<Head(names)>> \o Reached(files, Tail(names))

\* an empty list is handed back like any other
LoaderOutcomeLenient(parsed) == "loaded"

\* if not results: sys.exit(1), else return results
LoaderOutcome(parsed) == IF parsed = <<>> THEN "exit_no_results" ELSE "loaded"

LoadTestResults ==
    /\ pc = "load"
    /\ IF ~results_dir.raw.exists
       THEN /\ pc' = "exit_no_raw_dir"
            /\ UNCHANGED <<results, warnings>>
       ELSE LET files == results_dir.raw.files
                names == RawJsonFiles(files)
                reached == Reached(files, names)
            IN  /\ warnings' = warnings \cup Malformed(files, reached)
                /\ IF \E k \in DOMAIN names : ReadRaises(files[names[k]])
                   THEN /\ pc' = "raised"
                        /\ UNCHANGED results
                   ELSE /\ pc' = LoaderOutcome(ParsedRecords(files, names))
                        /\ results' = IF pc' = "loaded" THEN ParsedRecords(files, names)
                                                        ELSE results
    /\ UNCHANGED <<df, ts_df, results_dir, metadata, report_name, outputs>>

\* the exit status of the process: 1 after sys.exit(1) and after an exception
\* nobody catches, 0 otherwise
ExitStatus(position) ==
    IF position \in {"exit_usage", "exit_no_results_dir", "exit_no_raw_dir",
                     "exit_no_results", "raised"}
    THEN 1 ELSE 0

\* ------------------------------------------------------- report metadata
\* What json.load makes of a report file, tagged with its Python type: an
\* object holds a dict of such values, a string its characters one by one.
Object(d) == [t |-> "object", v |-> d]
String(chars) == [t |-> "string", v |-> chars]
Number(n) == [t |-> "number", v |-> n]
Null == [t |-> "null", v |-> 0]

EmptyObject == Object(EmptyDict)
EmptyString == String(<<>>)

\* Python's truth value: '', 0, {} and None are false
IsTrue(x) ==
    CASE x.t = "string" -> x.v # <<>>
      [] x.t = "number" -> x.v # 0
      [] x.t = "object" -> DOMAIN x.v # {}
      [] OTHER -> FALSE

\* sorted(glob('report-*.json')) as it stands: oldest name first
ReportFilesAscending(files) == SortedNames({n \in DOMAIN files : MatchesReport(n)})

\* sorted(results_dir.glob('report-*.json'), reverse=True)
ReportFiles(files) == Reverse(SortedNames({n \in DOMAIN files : MatchesReport(n)}))

\* what the except clause of load_report_metadata catches: JSONDecodeError
\* and IOError (OSError)
CaughtByMetadata(content) == content.kind \in {"malformed", "unreadable"}

LoadReportMetadata ==
    /\ pc = "metadata"
    /\ LET report_files == ReportFiles(results_dir.files)
       IN  IF report_files = <<>>
           THEN /\ metadata' = EmptyObject
                /\ pc' = "label"
                /\ UNCHANGED warnings
           ELSE LET content == results_dir.files[report_files[1]]
                IN  IF CaughtByMetadata(content)
                    THEN /\ warnings' = warnings \cup {report_files[1]}
                         /\ metadata' = EmptyObject
                         /\ pc' = "label"
                    ELSE IF content.kind = "json" /\ content.data.t = "object"
                    THEN /\ metadata' = Get(content.data.v, "report_metadata", EmptyObject)
                         /\ pc' = "label"
                         /\ UNCHANGED warnings
                    ELSE /\ pc' = "raised"
                         /\ UNCHANGED <<metadata, warnings>>
    /\ UNCHANGED <<results, df, ts_df, results_dir, report_name, outputs>>

\* ---------------------------------------------------------- get_report_name
DateLength == 10

ReportPrefix == <<"R", "e", "p", "o", "r", "t", " ">>

DefaultName ==
    <<"T", "e", "m", "p", "o", " ", "P", "e", "r", "f", "o", "r", "m", "a", "n", "c", "e",
      " ", "T", "e", "s", "t">>

\* the name as it is
WholeName(chars) == chars

\* cluster_name.split('/')[0]
RECURSIVE FirstPart(_)
FirstPart(chars) ==
    IF chars = <<>> \/ Head(chars) = "/" THEN <<>>
    ELSE <<Head(chars)>> \o FirstPart(Tail(chars))

\* generated_at[:10]
DatePart(chars) ==
    SubSeq(chars, 1, IF Len(chars) < DateLength THEN Len(chars) ELSE DateLength)

\* metadata.get('cluster', {}), and .get('name', '') of it
ClusterInfo(m) == Get(m.v, "cluster", EmptyObject)
ClusterName(m) == Get(ClusterInfo(m).v, "name", EmptyString)
GeneratedAt(m) == Get(m.v, "generated_at", EmptyString)

\* .get on something that is no dict, .split on a true value that is no
\* string, [:10] on a true value that cannot be sliced
NameRaises(m) ==
    \/ m.t # "object"
    \/ ClusterInfo(m).t # "object"
    \/ IsTrue(ClusterName(m)) /\ ClusterName(m).t # "string"
    \/ ~IsTrue(ClusterName(m)) /\ IsTrue(GeneratedAt(m)) /\ GeneratedAt(m).t # "string"

ReportName(m) ==
    IF IsTrue(ClusterName(m)) THEN FirstPart(ClusterName(m).v)
    ELSE IF IsTrue(GeneratedAt(m)) THEN ReportPrefix \o DatePart(GeneratedAt(m).v)
    ELSE DefaultName

GetReportName ==
    /\ pc = "label"
    /\ IF NameRaises(metadata)
       THEN /\ pc' = "raised"
            /\ UNCHANGED report_name
       ELSE /\ report_name' = ReportName(metadata)
            /\ pc' = "load"
    /\ UNCHANGED <<results, df, ts_df, results_dir, metadata, warnings, outputs>>

\* --------------------------------------------------------------------- main
\* main up to the banner: the usage check and the results directory check
CheckArguments ==
    /\ pc = "start"
    /\ pc' = IF ~results_dir.given THEN "exit_usage"
             ELSE IF ~results_dir.exists THEN "exit_no_results_dir"
             ELSE "metadata"
    /\ UNCHANGED <<results, df, ts_df, results_dir, metadata, report_name, warnings, outputs>>

StaticCharts ==
    {"charts/latency_comparison.png", "charts/resource_usage.png",
     "charts/throughput_analysis.png", "charts/error_metrics.png",
     "charts/bytes_ingested.png"}

TimeseriesCharts ==
    {"charts/timeseries_latency.png", "charts/timeseries_resources.png",
     "charts/timeseries_throughput.png", "charts/timeseries_errors.png"}

\* a step of main that writes files and moves on
Writes(from, to, files) ==
    /\ pc = from
    /\ outputs' = outputs \cup files
    /\ pc' = to
    /\ UNCHANGED <<results, df, ts_df, results_dir, metadata, report_name, warnings>>

GenerateStaticCharts == Writes("extracted", "static_charts", StaticCharts)

\* the files written whatever the table holds
WrittenAnyway(rows, files) == files

\* if ts_df.empty: return
UnlessEmpty(rows, files) == IF rows = <<>> THEN {} ELSE files

GenerateTimeseriesCharts ==
    Writes("static_charts", "timeseries_charts", UnlessEmpty(ts_df, TimeseriesCharts))

GenerateInteractiveDashboard ==
    Writes("timeseries_charts", "dashboard", {"dashboard.html"})

GenerateTimeseriesDashboard ==
    Writes("dashboard", "timeseries_dashboard",
           UnlessEmpty(ts_df, {"timeseries-dashboard.html"}))

GenerateSummaryTable == Writes("timeseries_dashboard", "done", {"summary.html"})

\* ------------------------------------------------------------------ inputs
\* An optional key: present with the one value of the set, or absent.
Opt(key, S) == [k \in (IF S = {} THEN {} ELSE {key}) |-> CHOOSE v \in S : TRUE]

NameOptions == {{}, {"high"}, {"low"}}

\* the fully populated metrics object of the documented sample record
FullMetrics ==
    [ throughput |-> [bytes_per_second |-> Rat(10485760, 1), spans_per_second |-> Rat(5000, 1)],
      query_latencies |-> [p50_seconds |-> Rat(1, 100), p90_seconds |-> Rat(1, 50),
                           p99_seconds |-> Rat(1, 20)],
      resources |-> [avg_cpu_cores |-> Rat(3, 2), max_memory_gb |-> Rat(2, 1)],
      errors |-> [error_rate_percent |-> Rat(1, 10), dropped_spans_per_second |-> Rat(0, 1)] ]

OtherMetrics ==
    [ throughput |-> [bytes_per_second |-> Rat(1572864, 1), spans_per_second |-> Rat(100, 1)],
      query_latencies |-> [p50_seconds |-> Rat(1, 8), p90_seconds |-> Rat(1, 4),
                           p99_seconds |-> Rat(3, 1)],
      resources |-> [avg_cpu_cores |-> Rat(2, 1), max_memory_gb |-> Rat(1, 2)],
      errors |-> [error_rate_percent |-> Rat(0, 1), dropped_spans_per_second |-> Rat(3, 1)] ]

Restrict(f, S) == [k \in S |-> f[k]]

\* a metrics object with one sub-object, or one leaf of a sub-object, removed
PartialMetrics ==
    {Restrict(FullMetrics, DOMAIN FullMetrics \ {g}) : g \in DOMAIN FullMetrics}
    \cup UNION { { [FullMetrics EXCEPT ![g] = Restrict(@, DOMAIN @ \ {leaf})]
                   : leaf \in DOMAIN FullMetrics[g] } : g \in DOMAIN FullMetrics }
    \cup { EmptyDict, OtherMetrics,
           [FullMetrics EXCEPT !.throughput.bytes_per_second = Zero] }

ConfigOptions == {{}, {EmptyDict}, {[mb_per_sec |-> 10]}, {[mb_per_sec |-> 20]}}

\* records exercising the summary columns
SummaryRecords ==
    { Opt("load_name", n) @@ Opt("config", c) @@ Opt("metrics", m) :
        n \in NameOptions, c \in ConfigOptions, m \in {{}, {FullMetrics}} }
    \cup { [load_name |-> "low", config |-> [mb_per_sec |-> 10], metrics |-> m] :
             m \in PartialMetrics }

Sample(t, v) == [timestamp |-> t, value |-> v]

\* a stream sampled at the given timestamps; the k-th sample has value base + k
StreamOf(stamps, base) == [k \in 1..Len(stamps) |-> Sample(stamps[k], base + k)]

Timestamps == {100, 160}

\* reference streams of up to MaxSamples samples, in any order, repeats included
ShortCpuStreams == {StreamOf(s, 0) : s \in UNION {[1..n -> Timestamps] : n \in 1..MaxSamples}}

\* streams holding a sample without 'value' or without 'timestamp'
BrokenStreams == {<<[timestamp |-> 100]>>, <<Sample(100, 7), [value |-> 8]>>}

\* timeseries mappings of records the extraction skips
SkippedTimeseries ==
    { EmptyDict,
      [memory_gb |-> StreamOf(<<100>>, 10)],
      [cpu_cores |-> <<>>, memory_gb |-> StreamOf(<<100, 160>>, 10)],
      [p50_latency_seconds |-> <<[timestamp |-> 100]>>],
      [cpu_cores |-> <<>>, memory_gb |-> <<Sample(100, 7), [value |-> 8]>>] }

\* timeseries mappings with a reference stream and more streams
JoinedTimeseries ==
    { [cpu_cores |-> StreamOf(<<100, 160>>, 0), memory_gb |-> StreamOf(s, 10)] :
        s \in {<<100>>, <<220>>, <<100, 100>>} }
    \cup { [cpu_cores |-> StreamOf(<<100, 160>>, 0), p50_latency_seconds |-> StreamOf(s, 10)] :
        s \in {<<160>>, <<100, 100>>} }
    \cup { [cpu_cores |-> StreamOf(<<100, 160>>, 0), memory_gb |-> StreamOf(<<100>>, 10),
            p50_latency_seconds |-> StreamOf(<<160>>, 20)] }
    \cup { [cpu_cores |-> StreamOf(<<160, 100>>, 0)] @@ (key :> StreamOf(<<100>>, 10)) :
             key \in StreamKeys \ {"cpu_cores"} }
    \cup { [cpu_cores |-> StreamOf(<<100>>, 0), memory_gb |-> b] : b \in BrokenStreams }
    \cup { [cpu_cores |-> <<[value |-> 8]>>] }

\* records exercising the time series
TimeseriesRecords ==
    { [load_name |-> "low", timeseries |-> [cpu_cores |-> c]] : c \in ShortCpuStreams }
    \cup { [load_name |-> "low", timeseries |-> [cpu_cores |-> StreamOf(s, 0)]] :
             s \in {<<100, 160, 220>>, <<100, 159>>} }
    \cup { [load_name |-> "high", timeseries |-> [cpu_cores |-> StreamOf(s, 0)]] :
             s \in {<<500, 560>>, <<100>>, <<160, 100>>} }
    \cup { [timeseries |-> [cpu_cores |-> StreamOf(s, 0)]] : s \in {<<100>>, <<100, 160>>} }
    \cup { [load_name |-> "low"] }
    \cup { [load_name |-> "low", timeseries |-> t] :
             t \in SkippedTimeseries \cup JoinedTimeseries }

ListsOf(S) == UNION {[1..n -> S] : n \in 1..MaxRecords}

JsonFile(data) == [kind |-> "json", data |-> data]
MalformedFile == [kind |-> "malformed"]
UnreadableFile == [kind |-> "unreadable"]
UndecodableFile == [kind |-> "undecodable"]

\* a file that may be there, with one of the contents, or not
OptFile(name, contents) == {EmptyDict} \cup {name :> c : c \in contents}

Directory(files, raw) == [given |-> TRUE, exists |-> TRUE, files |-> files, raw |-> raw]

NoRaw == [exists |-> FALSE, files |-> EmptyDict]
Raw(files) == [exists |-> TRUE, files |-> files]

\* the directory a list of records was loaded from: raw/a.json, raw/b.json, ...
LoadedFrom(rs) ==
    Directory(EmptyDict, Raw([n \in {NameOrder[k] : k \in DOMAIN rs} |->
                                JsonFile(rs[CHOOSE k \in DOMAIN rs : NameOrder[k] = n])]))

\* raw directories for the loader: up to MaxRecords + 1 *.json files (one can
\* fail and MaxRecords still load), each parsing, malformed or not readable,
\* and a notes.txt that holds JSON or does not
LoaderRecords ==
    { [load_name |-> "low"],
      [load_name |-> "high", config |-> [mb_per_sec |-> 10], metrics |-> FullMetrics] }

LoaderContents ==
    {JsonFile(r) : r \in LoaderRecords} \cup {MalformedFile, UnreadableFile, UndecodableFile}

LoaderRawDirs ==
    {NoRaw} \cup
    { Raw(f @@ d) :
        f \in UNION { [S -> LoaderContents] :
                        S \in SUBSET {NameOrder[k] : k \in 1..(MaxRecords + 1)} },
        d \in OptFile(FileName("", "notes", ".txt"),
                      {JsonFile([load_name |-> "low"]), MalformedFile}) }

\* report metadata: cluster, name and generated_at absent, empty, well formed
\* or of another type
Date == <<"2", "0", "2", "6", "-", "1", "1", "-", "0", "1", "T", "0">>

ClusterNames ==
    { EmptyString, String(<<"a", "b", "/", "c", "/", "d">>), String(<<"a", "b", "c">>),
      String(<<"/", "a", "b">>), Number(5), Number(0), Null }

Clusters ==
    {Object(n) : n \in OptFile("name", ClusterNames)} \cup {String(<<"x">>), Null}

GenerationTimes ==
    { EmptyString, String(Date), String(<<"2", "0", "2", "6">>), Number(7), Null }

Metadata ==
    { Object(c @@ g) : c \in OptFile("cluster", Clusters),
                       g \in OptFile("generated_at", GenerationTimes) }
    \cup {String(<<"x">>), Null}

ReportContents ==
    {JsonFile(Object(m)) : m \in OptFile("report_metadata", Metadata)}
    \cup {JsonFile(String(<<"x">>)), JsonFile(Number(1)), JsonFile(Null),
          MalformedFile, UnreadableFile, UndecodableFile}

\* an older report, told apart by its cluster name
OlderReport ==
    JsonFile(Object([report_metadata |->
        Object([cluster |-> Object([name |-> String(<<"o", "l", "d">>)])])]))

ReportDirs ==
    { r1 @@ r2 @@ o :
        r1 \in OptFile(FileName("report-", "1", ".json"), {OlderReport, MalformedFile}),
        r2 \in OptFile(FileName("report-", "2", ".json"), ReportContents),
        o \in OptFile(FileName("report", "s", ".json"), {OlderReport}) }

\* directories for whole runs of main
MainRecords ==
    { [load_name |-> "low", config |-> [mb_per_sec |-> 10], metrics |-> FullMetrics],
      [load_name |-> "high", timeseries |-> [cpu_cores |-> StreamOf(<<100, 160>>, 0)]],
      [load_name |-> "high"],
      [load_name |-> "low", timeseries |-> [cpu_cores |-> <<[value |-> 8]>>]] }

MainContents == {JsonFile(r) : r \in MainRecords} \cup {MalformedFile, UnreadableFile}

MainRawDirs ==
    {NoRaw} \cup
    { Raw(a @@ b) : a \in OptFile(FileName("", "a", ".json"), MainContents),
                    b \in OptFile(FileName("", "b", ".json"), MainContents) }

MainReports ==
    OptFile(FileName("report-", "1", ".json"),
            {OlderReport, MalformedFile, JsonFile(String(<<"x">>))})

MainDirs ==
    { [given |-> FALSE, exists |-> FALSE, files |-> EmptyDict, raw |-> NoRaw],
      [given |-> TRUE, exists |-> FALSE, files |-> EmptyDict, raw |-> NoRaw] }
    \cup {Directory(f, d) : f \in MainReports, d \in MainRawDirs}

\* ---------------------------------------------------------- specifications
\* The loader hands main a non-empty list of parsed records; the summary
\* table is built from it.
InitSummary ==
    /\ results \in ListsOf(SummaryRecords)
    /\ df = <<>>
    /\ ts_df = <<>>
    /\ pc = "loaded"
    /\ results_dir = LoadedFrom(results)
    /\ metadata = EmptyObject
    /\ report_name = DefaultName
    /\ warnings = {}
    /\ outputs = {}

NextSummary == ResultsToDataframe

SpecSummary == InitSummary /\ [][NextSummary]_vars

\* The time series is extracted once the summary table is built.  None of
\* TimeseriesRecords has a config, so every target rate is 0 and the rows in
\* input order are an arrangement the summary step can have left in df.
InitTimeseries ==
    /\ results \in ListsOf(TimeseriesRecords)
    /\ df = SummaryRows(results)
    /\ ts_df = <<>>
    /\ pc = "summarised"
    /\ results_dir = LoadedFrom(results)
    /\ metadata = EmptyObject
    /\ report_name = DefaultName
    /\ warnings = {}
    /\ outputs = {}

NextTimeseries == ExtractTimeseriesData

SpecTimeseries == InitTimeseries /\ [][NextTimeseries]_vars

\* The two builders over one loaded list, in the order of main or the other.
BuilderRecords ==
    { n @@ c @@ t :
        n \in {[load_name |-> "low"], [load_name |-> "high"]},
        c \in {EmptyDict, [config |-> [mb_per_sec |-> 10], metrics |-> FullMetrics]},
        t \in {EmptyDict,
               [timeseries |-> [cpu_cores |-> StreamOf(<<160, 100>>, 0),
                                memory_gb |-> StreamOf(<<100>>, 10)]]} }
    \cup { [load_name |-> "low", config |-> [mb_per_sec |-> 20], metrics |-> OtherMetrics],
           [load_name |-> "low", timeseries |-> [cpu_cores |-> <<[value |-> 8]>>]] }

InitBuilders ==
    /\ results \in ListsOf(BuilderRecords)
    /\ df = <<>>
    /\ ts_df = <<>>
    /\ pc = "loaded"
    /\ results_dir = LoadedFrom(results)
    /\ metadata = EmptyObject
    /\ report_name = DefaultName
    /\ warnings = {}
    /\ outputs = {}

NextBuilders ==
    \/ ResultsToDataframe
    \/ ExtractTimeseriesData
    \/ ExtractTimeseriesDataFirst
    \/ ResultsToDataframeSecond

SpecBuilders == InitBuilders /\ [][NextBuilders]_vars

\* what main holds before anything is loaded
NothingYet ==
    /\ results = <<>>
    /\ df = <<>>
    /\ ts_df = <<>>
    /\ metadata = EmptyObject
    /\ report_name = <<>>
    /\ warnings = {}
    /\ outputs = {}

\* The report label is resolved from the report files of the directory.
InitLabel ==
    /\ results_dir \in {Directory(f, NoRaw) : f \in ReportDirs}
    /\ NothingYet
    /\ pc = "metadata"

NextLabel == LoadReportMetadata \/ GetReportName

SpecLabel == InitLabel /\ [][NextLabel]_vars

\* The loader reads the raw directory once the label is resolved.
InitLoader ==
    /\ results_dir \in {Directory(EmptyDict, d) : d \in LoaderRawDirs}
    /\ NothingYet
    /\ pc = "load"

NextLoader == LoadTestResults

SpecLoader == InitLoader /\ [][NextLoader]_vars

\* A whole run of main.
Init ==
    /\ results_dir \in MainDirs
    /\ NothingYet
    /\ pc = "start"

Next ==
    \/ CheckArguments
    \/ LoadReportMetadata
    \/ GetReportName
    \/ LoadTestResults
    \/ ResultsToDataframe
    \/ ExtractTimeseriesData
    \/ GenerateStaticCharts
    \/ GenerateTimeseriesCharts
    \/ GenerateInteractiveDashboard
    \/ GenerateTimeseriesDashboard
    \/ GenerateSummaryTable

Spec == Init /\ [][Next]_vars

\* the output steps of main, lines 1103-1107
GenerateOutputs ==
    \/ GenerateStaticCharts
    \/ GenerateTimeseriesCharts
    \/ GenerateInteractiveDashboard
    \/ GenerateTimeseriesDashboard
    \/ GenerateSummaryTable

\* main is one sequential program: once the tables are built, the output step
\* that comes next is taken
FairSpec == Spec /\ WF_vars(GenerateOutputs)

\* ------------------------------------------------------------ summary table
\* the row of df built from the record at position i
RowsOf(i) == {k \in DOMAIN df : df[k].src = i}

\* the target rate of a record: config.mb_per_sec, 0 when it has none
TargetRate(r) ==
    IF "config" \in DOMAIN r /\ "mb_per_sec" \in DOMAIN r.config
    THEN r.config.mb_per_sec ELSE 0

\* C1: for a list of N >= 1 loaded records the summary has exactly N rows, one
\* per input record: none dropped, merged or duplicated.
C1_OneRowPerRecord ==
    pc = "summarised" =>
        /\ Len(df) = Len(results)
        /\ \A i \in DOMAIN results : Cardinality(RowsOf(i)) = 1

\* two records sharing load_name and target rate have been summarised
C1_Witness ==
    /\ pc = "summarised"
    /\ \E i, j \in DOMAIN results :
        /\ i < j
        /\ "load_name" \in DOMAIN results[i]
        /\ "load_name" \in DOMAIN results[j]
        /\ results[i].load_name = results[j].load_name
        /\ TargetRate(results[i]) = TargetRate(results[j])

\* C2: the summary is sorted non-decreasing by mb_per_sec, a record without
\* config.mb_per_sec sorting as 0.
C2_SortedByRate ==
    pc = "summarised" =>
        /\ \A k \in DOMAIN df : df[k].mb_per_sec = TargetRate(results[df[k].src])
        /\ \A k \in 1..(Len(df) - 1) :
            TargetRate(results[df[k].src]) <= TargetRate(results[df[k + 1].src])

\* a record without a target rate, listed after one with a rate, comes out first
C2_Witness ==
    /\ pc = "summarised"
    /\ Len(results) >= 2
    /\ TargetRate(results[1]) > 0
    /\ "config" \notin DOMAIN results[2]
    /\ df[1].src = 2

\* C3: the summary sort is stable: of two records with equal mb_per_sec the one
\* earlier in the input list is earlier in the summary.
C3_StableOrder ==
    pc = "summarised" =>
        \A k, m \in DOMAIN df :
            (k < m /\ df[k].mb_per_sec = df[m].mb_per_sec) => df[k].src < df[m].src

\* the value found along a path of keys that is wholly present
RECURSIVE AtPath(_, _)
AtPath(obj, path) == IF path = <<>> THEN obj ELSE AtPath(obj[Head(path)], Tail(path))

RECURSIVE HasPath(_, _)
HasPath(obj, path) ==
    \/ path = <<>>
    \/ /\ Head(path) \in DOMAIN obj
       /\ HasPath(obj[Head(path)], Tail(path))

\* x = y * k / m for rationals x, y and positive integers k, m
EqualsScaled(x, y, k, m) == x = Rat(y.n * k, y.d * m)

LatencyColumns ==
    { <<"p50_ms", "p50_seconds">>, <<"p90_ms", "p90_seconds">>, <<"p99_ms", "p99_seconds">> }

\* C4: in every summary row mb_per_sec_actual = bytes_per_sec / 1048576 and
\* p50_ms, p90_ms, p99_ms are the record's p50, p90, p99 seconds times 1000.
C4_UnitConversion ==
    pc = "summarised" =>
        \A k \in DOMAIN df :
            /\ EqualsScaled(df[k].mb_per_sec_actual, df[k].bytes_per_sec, 1, 1048576)
            /\ \A c \in LatencyColumns :
                LET path == <<"metrics", "query_latencies", c[2]>>
                IN  HasPath(results[df[k].src], path) =>
                        EqualsScaled(df[k][c[1]], AtPath(results[df[k].src], path), 1000, 1)

\* the documented sample record: 10485760 B/s, p50 0.01 s, p99 0.05 s
C4_Witness ==
    /\ pc = "summarised"
    /\ \E k \in DOMAIN df :
        /\ df[k].bytes_per_sec = [n |-> 10485760, d |-> 1]
        /\ df[k].mb_per_sec_actual = [n |-> 10, d |-> 1]
        /\ df[k].p50_ms = [n |-> 10, d |-> 1]
        /\ df[k].p99_ms = [n |-> 50, d |-> 1]
        /\ results[df[k].src].metrics.query_latencies.p50_seconds = [n |-> 1, d |-> 100]

\* the source path of every numeric column fed from the metrics object
MetricColumns ==
    { <<"mb_per_sec_actual", <<"metrics", "throughput", "bytes_per_second">> >>,
      <<"bytes_per_sec", <<"metrics", "throughput", "bytes_per_second">> >>,
      <<"spans_per_sec", <<"metrics", "throughput", "spans_per_second">> >>,
      <<"p50_ms", <<"metrics", "query_latencies", "p50_seconds">> >>,
      <<"p90_ms", <<"metrics", "query_latencies", "p90_seconds">> >>,
      <<"p99_ms", <<"metrics", "query_latencies", "p99_seconds">> >>,
      <<"cpu_cores", <<"metrics", "resources", "avg_cpu_cores">> >>,
      <<"memory_gb", <<"metrics", "resources", "max_memory_gb">> >>,
      <<"error_rate", <<"metrics", "errors", "error_rate_percent">> >>,
      <<"dropped_spans", <<"metrics", "errors", "dropped_spans_per_second">> >> }

\* C5: when any segment of a numeric column's source path is missing the column
\* is 0 in the record's row, and the row is still produced.
C5_MissingIsZero ==
    pc = "summarised" =>
        \A i \in DOMAIN results :
            /\ RowsOf(i) # {}
            /\ \A k \in RowsOf(i) :
                /\ ~HasPath(results[i], <<"config", "mb_per_sec">>) => df[k].mb_per_sec = 0
                /\ \A c \in MetricColumns :
                    ~HasPath(results[i], c[2]) => df[k][c[1]] = [n |-> 0, d |-> 1]

\* summarised: a record with no metrics, one with metrics but a sub-object
\* short, and one with a sub-object but a leaf short
C5_Witness ==
    /\ pc = "summarised"
    /\ \E i \in DOMAIN results : "metrics" \notin DOMAIN results[i]
    /\ \E i \in DOMAIN results :
        \/ /\ "metrics" \in DOMAIN results[i]
           /\ "query_latencies" \notin DOMAIN results[i].metrics
        \/ /\ HasPath(results[i], <<"metrics", "query_latencies">>)
           /\ "p90_seconds" \notin DOMAIN results[i].metrics.query_latencies

\* -------------------------------------------------------------- time series
SameLoad(k, m) == ts_df[k].load_name = ts_df[m].load_name

\* C6: in the extracted rows, for every load name the row with the load's
\* minimum timestamp has minute 1, and within a load a smaller timestamp never
\* has a larger minute.
C6_MinuteStartsAtOneAndGrows ==
    pc = "extracted" =>
        \A k \in DOMAIN ts_df :
            /\ (\A m \in DOMAIN ts_df :
                    SameLoad(k, m) => ts_df[k].timestamp <= ts_df[m].timestamp)
                => ts_df[k].minute = 1
            /\ \A m \in DOMAIN ts_df :
                (SameLoad(k, m) /\ ts_df[k].timestamp < ts_df[m].timestamp)
                    => ts_df[k].minute <= ts_df[m].minute

\* two loads with different first timestamps, the later one spanning two minutes
C6_Witness ==
    /\ pc = "extracted"
    /\ \E k, m, j \in DOMAIN ts_df :
        /\ ~SameLoad(j, k)
        /\ ts_df[j].timestamp < ts_df[k].timestamp
        /\ SameLoad(k, m)
        /\ ts_df[k].minute = 1
        /\ ts_df[m].minute = 2

\* the minimum timestamp among the rows of row k's own load
OwnMinimum(k) ==
    CHOOSE t \in {ts_df[m].timestamp : m \in {j \in DOMAIN ts_df : SameLoad(j, k)}} :
        \A m \in DOMAIN ts_df : SameLoad(m, k) => t <= ts_df[m].timestamp

\* C7: each row's minute is floor((timestamp - m) / 60) + 1 with m the minimum
\* timestamp of the row's own load, whatever the other loads' timestamps are.
C7_MinuteIsLoadRelative ==
    pc = "extracted" =>
        \A k \in DOMAIN ts_df :
            /\ 60 * (ts_df[k].minute - 1) <= ts_df[k].timestamp - OwnMinimum(k)
            /\ ts_df[k].timestamp - OwnMinimum(k) < 60 * ts_df[k].minute

\* loads sampled at [100,160,220] and [500,560] got minutes [1,2,3] and [1,2]
C7_Witness ==
    /\ pc = "extracted"
    /\ [k \in DOMAIN ts_df |-> <<ts_df[k].load_name, ts_df[k].timestamp, ts_df[k].minute>>]
        = << <<"high", 500, 1>>, <<"high", 560, 2>>,
             <<"low", 100, 1>>, <<"low", 160, 2>>, <<"low", 220, 3>> >>

\* a record with no timeseries, an empty one, no cpu_cores stream or an empty one
SkipCase(r) ==
    \/ "timeseries" \notin DOMAIN r
    \/ DOMAIN r.timeseries = {}
    \/ "cpu_cores" \notin DOMAIN r.timeseries
    \/ r.timeseries.cpu_cores = <<>>

KeepCase(r) == ~SkipCase(r)

\* every sample of every stream of the record has a timestamp and a value
WellFormed(r) ==
    "timeseries" \in DOMAIN r =>
        \A key \in DOMAIN r.timeseries :
            \A k \in DOMAIN r.timeseries[key] :
                {"timestamp", "value"} \subseteq DOMAIN r.timeseries[key][k]

Columns(row) == [c \in DOMAIN row \ {"src"} |-> row[c]]

\* C8: a record whose timeseries or cpu_cores stream is absent or empty
\* contributes no row and makes nothing raise, whatever its other streams hold,
\* and the rows are those the other records give without it.
C8_SkippedRecordContributesNothing ==
    /\ pc = "extracted" =>
        /\ \A i \in DOMAIN results :
            SkipCase(results[i]) => \A k \in DOMAIN ts_df : ts_df[k].src # i
        /\ LET others == AddMinute(SortByLoadAndTime(CollectRows(SelectSeq(results, KeepCase), 1)))
           IN  [k \in DOMAIN ts_df |-> Columns(ts_df[k])]
                = [k \in DOMAIN others |-> Columns(others[k])]
    /\ pc = "raised" =>
        \E i \in DOMAIN results : KeepCase(results[i]) /\ ~WellFormed(results[i])

\* a skipped record holding a sample without a value, beside a record with rows
C8_Witness ==
    /\ pc = "extracted"
    /\ ts_df # <<>>
    /\ \E i \in DOMAIN results : SkipCase(results[i]) /\ ~WellFormed(results[i])
    /\ \E i \in DOMAIN results :
        /\ SkipCase(results[i])
        /\ "timeseries" \in DOMAIN results[i]
        /\ "cpu_cores" \in DOMAIN results[i].timeseries

StampsOf(stream) == {stream[k].timestamp : k \in DOMAIN stream}

\* C9: a record with a non-empty cpu_cores stream contributes rows for exactly
\* the timestamps of that stream, and in each row a metric whose stream has no
\* sample at the row's timestamp is 0.
C9_ReferenceStreamDrivesRows ==
    pc = "extracted" =>
        \A i \in DOMAIN results :
            KeepCase(results[i]) =>
                /\ {ts_df[k].timestamp : k \in {m \in DOMAIN ts_df : ts_df[m].src = i}}
                    = StampsOf(results[i].timeseries.cpu_cores)
                /\ \A k \in DOMAIN ts_df, s \in 2..Len(TrackedStreams) :
                    LET key == TrackedStreams[s].key
                        absent == \/ key \notin DOMAIN results[i].timeseries
                                  \/ ts_df[k].timestamp \notin StampsOf(results[i].timeseries[key])
                    IN  (ts_df[k].src = i /\ absent) => ts_df[k][TrackedStreams[s].col] = 0

\* memory_gb sampled at a timestamp cpu_cores lacks and missing at one it has
C9_Witness ==
    /\ pc = "extracted"
    /\ \E i \in DOMAIN results :
        /\ KeepCase(results[i])
        /\ "memory_gb" \in DOMAIN results[i].timeseries
        /\ StampsOf(results[i].timeseries.memory_gb)
             \ StampsOf(results[i].timeseries.cpu_cores) # {}
        /\ \E k \in DOMAIN ts_df : ts_df[k].src = i /\ ts_df[k].memory_gb = 0

\* the order of Python strings on the load names
NameBefore == { <<"high", "low">>, <<"high", "unknown">>, <<"low", "unknown">> }

\* C10: the extracted rows ascend by (load_name, timestamp), whatever the order
\* of the records in the input.
C10_OrderedByLoadAndTime ==
    pc = "extracted" =>
        \A k \in 1..(Len(ts_df) - 1) :
            \/ <<ts_df[k].load_name, ts_df[k + 1].load_name>> \in NameBefore
            \/ /\ ts_df[k].load_name = ts_df[k + 1].load_name
               /\ ts_df[k].timestamp <= ts_df[k + 1].timestamp

\* the input lists "low" before "high" and a later timestamp before an earlier
C10_Witness ==
    /\ pc = "extracted"
    /\ Len(results) >= 2
    /\ KeepCase(results[1]) /\ KeepCase(results[2])
    /\ Get(results[1], "load_name", "unknown") = "low"
    /\ Get(results[2], "load_name", "unknown") = "high"
    /\ results[2].timeseries.cpu_cores[1].timestamp > results[2].timeseries.cpu_cores[2].timestamp
    /\ ts_df[1].src = 2

\* C11: the extracted rows hold one row per (load_name, timestamp): no two rows
\* share both, also when two records carry the same load_name or none.
C11_OneRowPerLoadAndTimestamp ==
    pc = "extracted" =>
        \A k, m \in DOMAIN ts_df :
            (SameLoad(k, m) /\ ts_df[k].timestamp = ts_df[m].timestamp) => k = m

\* C18: with any field absent (a metric, a sub-object, a stream, a field of a
\* sample) the summary and the extraction both return without raising.
C18_AbsentFieldNeverRaises == pc # "raised"

\* C20: of several samples of one stream with the same timestamp the last in
\* stream order gives the row's value, and a timestamp repeated in cpu_cores
\* gives the record one row, not one per sample.
C20_LastSampleWins ==
    pc = "extracted" =>
        \A i \in DOMAIN results :
            KeepCase(results[i]) =>
                /\ \A t \in StampsOf(results[i].timeseries.cpu_cores) :
                    Cardinality({k \in DOMAIN ts_df :
                                    ts_df[k].src = i /\ ts_df[k].timestamp = t}) = 1
                /\ \A k \in DOMAIN ts_df, s \in DOMAIN TrackedStreams :
                    (ts_df[k].src = i /\ TrackedStreams[s].key \in DOMAIN results[i].timeseries) =>
                        LET stream == results[i].timeseries[TrackedStreams[s].key]
                        IN  \A j \in DOMAIN stream :
                                (/\ stream[j].timestamp = ts_df[k].timestamp
                                 /\ \A m \in DOMAIN stream :
                                        m > j => stream[m].timestamp # ts_df[k].timestamp)
                                => ts_df[k][TrackedStreams[s].col]
                                     = stream[j].value * TrackedStreams[s].scale

\* cpu_cores and memory_gb each sampled twice at one timestamp with two values
C20_Witness ==
    /\ pc = "extracted"
    /\ \E i \in DOMAIN results :
        /\ KeepCase(results[i])
        /\ \E a, b \in DOMAIN results[i].timeseries.cpu_cores :
            /\ a < b
            /\ results[i].timeseries.cpu_cores[a].timestamp
                 = results[i].timeseries.cpu_cores[b].timestamp
            /\ results[i].timeseries.cpu_cores[a].value
                 # results[i].timeseries.cpu_cores[b].value
    /\ \E i \in DOMAIN results :
        /\ KeepCase(results[i])
        /\ "memory_gb" \in DOMAIN results[i].timeseries
        /\ Len(results[i].timeseries.memory_gb) = 2
        /\ results[i].timeseries.memory_gb[1].timestamp
             = results[i].timeseries.memory_gb[2].timestamp
        /\ \E k \in DOMAIN ts_df :
            ts_df[k].src = i /\ ts_df[k].memory_gb = results[i].timeseries.memory_gb[2].value

\* ------------------------------------------------------------------- loader
RawFiles == results_dir.raw.files

\* the place of a file name in ascending filename order
Rank(name) == CHOOSE k \in DOMAIN NameOrder : NameOrder[k] = name

JsonNamed == {n \in DOMAIN RawFiles : n.ext = ".json"}

\* the files of a set that parse as JSON
Parsing(names) == {n \in names : RawFiles[n].kind = "json"}

\* the parsed contents of a set of files, in ascending filename order
InNameOrder(names) ==
    [k \in 1..Cardinality(names) |->
        RawFiles[CHOOSE n \in names :
                    Cardinality({m \in names : Rank(m) < Rank(n)}) = k - 1].data]

\* C12 as stated: the loader returns the parsed contents of exactly the files
\* under raw/ that parse as JSON, in ascending filename order.
C12_AllParsingFilesUnderRaw ==
    pc = "loaded" => results = InNameOrder(Parsing(DOMAIN RawFiles))

\* C12: when the loader returns, it returns the parsed contents of exactly the
\* files matching raw/*.json that parse as JSON, in ascending filename order; a
\* file json.load rejects is left out with a warning and the files after it
\* are still loaded.
C12_ParsingJsonFilesInOrder ==
    pc = "loaded" =>
        /\ results = InNameOrder(Parsing(JsonNamed))
        /\ \A n \in JsonNamed : RawFiles[n].kind = "malformed" => n \in warnings

\* a malformed a.json before a parsing b.json, beside a notes.txt holding JSON
C12_Witness ==
    /\ pc = "loaded"
    /\ \E a, b \in JsonNamed :
        /\ Rank(a) < Rank(b)
        /\ RawFiles[a].kind = "malformed"
        /\ RawFiles[b].kind = "json"
    /\ \E n \in DOMAIN RawFiles : n.ext = ".txt" /\ RawFiles[n].kind = "json"

\* C13: without a raw directory, or with one in which no file parses (an empty
\* one included), the loader ends the process with a non-zero exit status; it
\* never returns an empty list.
C13_FatalWithoutRecords ==
    /\ pc = "loaded" => results # <<>>
    /\ (pc # "load" /\ (~results_dir.raw.exists \/ Parsing(JsonNamed) = {})) =>
           pc # "loaded" /\ ExitStatus(pc) # 0

\* a raw directory whose only *.json files are malformed
C13_Witness ==
    /\ pc = "exit_no_results"
    /\ results_dir.raw.exists
    /\ \E n \in JsonNamed : RawFiles[n].kind = "malformed"

\* C19: a raw file that cannot be opened or read is skipped like a malformed
\* one: the batch does not abort and the files that parse are loaded.
C19_UnreadableFileSkipped ==
    (/\ pc # "load"
     /\ results_dir.raw.exists
     /\ \E n \in JsonNamed : RawFiles[n].kind \in {"unreadable", "undecodable"})
    => /\ pc \in {"loaded", "exit_no_results"}
       /\ pc = "loaded" => results = InNameOrder(Parsing(JsonNamed))

\* ------------------------------------------------------------- report label
Reports == {n \in DOMAIN results_dir.files : n.head = "report-" /\ n.ext = ".json"}

\* the report file last in ascending filename order
LastReport == CHOOSE n \in Reports : \A m \in Reports : Rank(m) <= Rank(n)

Absent == [t |-> "absent", v |-> 0]

\* metadata.cluster.name and metadata.generated_at, Absent when not there
NameOf(m) ==
    IF "cluster" \in DOMAIN m.v /\ "name" \in DOMAIN m.v.cluster.v
    THEN m.v.cluster.v.name ELSE Absent

TimeOf(m) == IF "generated_at" \in DOMAIN m.v THEN m.v.generated_at ELSE Absent

IsString(x) == x.t = "string"
NonEmpty(x) == x.t = "string" /\ x.v # <<>>

\* absent, or one of '', 0 and null
Missing(x) ==
    \/ x.t \in {"absent", "null"}
    \/ x.t = "string" /\ x.v = <<>>
    \/ x.t = "number" /\ x.v = 0

\* the characters before the first '/', all of them when there is none
BeforeSlash(chars) ==
    LET slashes == {k \in DOMAIN chars : chars[k] = "/"}
    IN  IF slashes = {} THEN chars
        ELSE SubSeq(chars, 1, (CHOOSE k \in slashes : \A j \in slashes : k <= j) - 1)

\* "Report " and the first 10 characters
DateLabel(chars) ==
    <<"R", "e", "p", "o", "r", "t", " ">>
    \o [k \in 1..(IF Len(chars) < 10 THEN Len(chars) ELSE 10) |-> chars[k]]

\* C15: resolving the label is never fatal: whatever the report files hold,
\* the run gets past load_report_metadata and get_report_name to the loader,
\* and a report that fails to parse counts as no metadata.
C15_LabelNeverFatal ==
    pc \notin {"metadata", "label"} =>
        /\ pc = "load"
        /\ (Reports # {} /\ results_dir.files[LastReport].kind = "malformed")
               => metadata = EmptyObject

\* C16 as stated: a cluster.name that is present gives the label, a
\* generated_at that is present gives it when the name is not there, and the
\* default is used when neither is.
C16_PresentNameFirst ==
    pc = "load" =>
        /\ IsString(NameOf(metadata)) => report_name = BeforeSlash(NameOf(metadata).v)
        /\ (NameOf(metadata) = Absent /\ IsString(TimeOf(metadata)))
               => report_name = DateLabel(TimeOf(metadata).v)
        /\ (NameOf(metadata) = Absent /\ TimeOf(metadata) = Absent)
               => report_name = DefaultName

\* C16: a non-empty cluster.name gives the label, its part before the first
\* '/'; when the name is absent or empty, a non-empty generated_at gives
\* "Report " and its first 10 characters; when both are absent or empty the
\* label is the default.
C16_NonEmptyNameFirst ==
    pc = "load" =>
        /\ NonEmpty(NameOf(metadata)) \/ Missing(NameOf(metadata))
        /\ NonEmpty(NameOf(metadata)) => report_name = BeforeSlash(NameOf(metadata).v)
        /\ (Missing(NameOf(metadata)) /\ NonEmpty(TimeOf(metadata)))
               => report_name = DateLabel(TimeOf(metadata).v)
        /\ (Missing(NameOf(metadata)) /\ Missing(TimeOf(metadata)))
               => report_name = DefaultName

\* a name with a '/' in it wins over a generated_at that is there too
C16_Witness ==
    /\ pc = "load"
    /\ NonEmpty(NameOf(metadata))
    /\ \E k \in DOMAIN NameOf(metadata).v : k > 1 /\ NameOf(metadata).v[k] = "/"
    /\ NonEmpty(TimeOf(metadata))
    /\ report_name = <<"a", "b">>

\* C17: of several report files the one last in ascending filename order is
\* read, and the metadata is that file's report_metadata, whatever the other
\* report files hold.
C17_LastReportDecides ==
    (pc \in {"label", "load"} /\ Reports # {}) =>
        LET content == results_dir.files[LastReport]
        IN  metadata = IF content.kind = "json" /\ "report_metadata" \in DOMAIN content.data.v
                       THEN content.data.v.report_metadata
                       ELSE EmptyObject

\* report-2.json read although report-1.json holds other metadata
C17_Witness ==
    /\ pc = "label"
    /\ Cardinality(Reports) = 2
    /\ \A n \in Reports : /\ results_dir.files[n].kind = "json"
                          /\ results_dir.files[n].data.t = "object"
                          /\ "report_metadata" \in DOMAIN results_dir.files[n].data.v
    /\ \E n \in Reports : results_dir.files[n].data.v.report_metadata # metadata
    /\ metadata # EmptyObject

\* --------------------------------------------------------------------- main
LoaderFatal == {"exit_no_raw_dir", "exit_no_results"}

\* the positions of main after a step that produces output
AfterOutputStep ==
    {"summarised", "extracted", "static_charts", "timeseries_charts", "dashboard",
     "timeseries_dashboard", "done"}

\* C14: a run that ends in the loader's fatal condition has executed no
\* output-producing step, and every such step comes after the loader has
\* returned a non-empty list.
C14_NoOutputBeforeRecords ==
    /\ pc \in LoaderFatal => df = <<>> /\ ts_df = <<>> /\ outputs = {}
    /\ (pc \in AfterOutputStep \/ df # <<>> \/ ts_df # <<>> \/ outputs # {})
           => results # <<>>

\* the run stopped at a raw directory holding only a malformed file
C14_Witness ==
    /\ pc \in LoaderFatal
    /\ results_dir.raw.exists
    /\ \E n \in DOMAIN results_dir.raw.files : results_dir.raw.files[n].kind = "malformed"
    /\ outputs = {}

\* ----------------------------------------------------------------- builders
\* the list as the loader read it from raw/
Loaded ==
    [k \in 1..Cardinality(DOMAIN results_dir.raw.files) |->
        results_dir.raw.files[NameOrder[k]].data]

\* C21: the two builders leave the loaded list and its records as they were,
\* so that in either order each builds what it builds from the loaded list
\* when run alone.
C21_BuildersOnlyRead ==
    /\ results = Loaded
    /\ pc \in {"summarised", "extracted", "built_reversed"}
           => df \in SortByRate(SummaryRows(Loaded))
    /\ pc \in {"extracted", "extracted_first", "built_reversed"}
           => ts_df = AddMinute(SortByLoadAndTime(CollectRows(Loaded, 1)))

\* the summary built after the extraction, over records with metrics and streams
C21_Witness ==
    /\ pc = "built_reversed"
    /\ ts_df # <<>>
    /\ Len(df) = Len(results)
    /\ \E i \in DOMAIN results : {"metrics", "timeseries"} \subseteq DOMAIN results[i]

\* ------------------------------------------------------------------ outputs
\* the loader has returned and no record has a non-empty cpu_cores stream
NoTimeseriesRows == results # <<>> /\ \A i \in DOMAIN results : SkipCase(results[i])

TimeseriesFiles ==
    {"charts/timeseries_latency.png", "charts/timeseries_resources.png",
     "charts/timeseries_throughput.png", "charts/timeseries_errors.png",
     "timeseries-dashboard.html"}

SummaryFiles ==
    {"charts/latency_comparison.png", "charts/resource_usage.png",
     "charts/throughput_analysis.png", "charts/error_metrics.png",
     "charts/bytes_ingested.png", "dashboard.html", "summary.html"}

\* C22: when no loaded record contributes time-series rows the extracted table
\* is empty, no time-series chart and no time-series dashboard is written, and
\* the run goes on to its end with the static charts, the summary dashboard
\* and the summary table written and exit status 0.
C22_EmptyTimeseriesSkipsItsOutputs ==
    /\ [](NoTimeseriesRows =>
            /\ pc \notin {"load", "raised"}
            /\ ts_df = <<>>
            /\ outputs \cap TimeseriesFiles = {}
            /\ pc = "done" => outputs = SummaryFiles /\ ExitStatus(pc) = 0)
    /\ ((NoTimeseriesRows /\ pc = "extracted") ~> pc = "done")

\* a finished run over records without streams
C22_Witness ==
    /\ NoTimeseriesRows
    /\ pc = "done"
    /\ ts_df = <<>>
    /\ "summary.html" \in outputs

\* C23: the label get_report_name returns is never the empty string, also for
\* a cluster name beginning with '/' and a generated_at of fewer than 10
\* characters.
C23_LabelNeverEmpty == pc = "load" => report_name # <<>>

====
